---- MODULE Spec2Model ----
(***************************************************************************)
(* Startup-time resolution of the announced IPv4 address in                *)
(* src/app/src/config.template.js: getIPv4, getLocalIPv4,                  *)
(* scanAllInterfaces and findValidAddress.                                 *)
(*                                                                         *)
(* A JavaScript string is a sequence of one-character strings, so that     *)
(* includes, startsWith and toLowerCase are computed character by          *)
(* character.  A JavaScript object is a record; a property the object      *)
(* does not have is a field the record does not have.                      *)
(***************************************************************************)
EXTENDS Integers, Sequences, FiniteSets, TLC

VARIABLES
    PLATFORM,       \* os.platform(), line 33 and line 1697
    IS_DOCKER,      \* fs.existsSync('/.dockerenv'), line 34
    NODE_ENV,       \* process.env.NODE_ENV, "" when unset
    ANNOUNCED_IP,   \* process.env.SFU_ANNOUNCED_IP || '', line 36
    pc,             \* position in the module's startup: getIPv4, getLocalIPv4, getFFmpegPath
    ifaces,         \* const ifaces = os.networkInterfaces(), line 1696
    reads,          \* number of calls of os.networkInterfaces() so far
    prio,           \* index of the priority name the outer loop of line 1716 is at
    IPv4,           \* const IPv4 = getIPv4(), line 38
    source,         \* the return statement that produced IPv4
    fromIface,      \* name of the interface whose record produced IPv4
    envFFmpeg,      \* process.env.RTMP_FFMPEG_PATH as read at line 53, "" when unset
    fs,             \* what fs.accessSync finds at each candidate path
    cand,           \* index of the candidate the loop of line 1772 is at
    checked,        \* the paths fs.accessSync was called on, in order
    RTMP_FFMPEG_PATH,   \* const RTMP_FFMPEG_PATH, line 53
    pathSource,     \* the expression that produced RTMP_FFMPEG_PATH
    SFU_LISTEN_IP,  \* process.env.SFU_LISTEN_IP as read at line 37, << >> when unset
    exports         \* module.exports, line 59: its two listenInfos arrays

\* The variables of lines 33-38 and the variables of line 53.
ipVars == <<PLATFORM, IS_DOCKER, NODE_ENV, ANNOUNCED_IP, ifaces, reads, prio,
            IPv4, source, fromIface>>

ffmpegVars == <<envFFmpeg, fs, cand, checked, RTMP_FFMPEG_PATH, pathSource>>

\* The variables of line 37 and of the object literal of line 59.
exportVars == <<SFU_LISTEN_IP, exports>>

vars == <<PLATFORM, IS_DOCKER, NODE_ENV, ANNOUNCED_IP, pc, ifaces, reads, prio,
          IPv4, source, fromIface, ffmpegVars, exportVars>>

(***************************************************************************)
(* Bounds                                                                  *)
(***************************************************************************)

\* Largest number of interfaces in a table os.networkInterfaces() returns.
MaxIfaces == 2

(***************************************************************************)
(* String primitives of JavaScript                                         *)
(***************************************************************************)

UpperCaseLetters ==
    <<"A","B","C","D","E","F","G","H","I","J","K","L","M",
      "N","O","P","Q","R","S","T","U","V","W","X","Y","Z">>

LowerCaseLetters ==
    <<"a","b","c","d","e","f","g","h","i","j","k","l","m",
      "n","o","p","q","r","s","t","u","v","w","x","y","z">>

\* The lower-case letter of each upper-case letter.
LowerCaseOf ==
    [c \in {UpperCaseLetters[i] : i \in 1..Len(UpperCaseLetters)} |->
        LowerCaseLetters[CHOOSE i \in 1..Len(UpperCaseLetters) : UpperCaseLetters[i] = c]]

\* String.prototype.toLowerCase on one character.
LowerChar(c) == IF c \in DOMAIN LowerCaseOf THEN LowerCaseOf[c] ELSE c

\* String.prototype.toLowerCase
toLowerCase(s) == [i \in 1..Len(s) |-> LowerChar(s[i])]

\* Variant: containment at the start of the string only.
includes_AtStart(s, sub) ==
    /\ Len(sub) <= Len(s)
    /\ SubSeq(s, 1, Len(sub)) = sub

\* String.prototype.includes
includes(s, sub) ==
    \E i \in 1..(Len(s) - Len(sub) + 1) : SubSeq(s, i, i + Len(sub) - 1) = sub

\* String.prototype.startsWith
startsWith(s, prefix) ==
    /\ Len(prefix) <= Len(s)
    /\ \A i \in 1..Len(prefix) : s[i] = prefix[i]

(***************************************************************************)
(* Static tables of getLocalIPv4                                           *)
(***************************************************************************)

\* Variant: the linux row lists wlan0 before eth0.
platformPriorities_Swapped(platform) ==
    CASE platform = "win32"  -> << <<"E","t","h","e","r","n","e","t">>,
                                   <<"W","i","-","F","i">>,
                                   <<"L","o","c","a","l"," ","A","r","e","a"," ","C","o","n","n","e","c","t","i","o","n">> >>
      [] platform = "darwin" -> << <<"e","n","1">>, <<"e","n","0">> >>
      [] platform = "linux"  -> << <<"w","l","a","n","0">>, <<"e","t","h","0">> >>
      [] OTHER               -> << >>

\* PRIORITY_CONFIG[platform] || [], lines 1699-1703 and 1712.
platformPriorities(platform) ==
    CASE platform = "win32"  -> << <<"E","t","h","e","r","n","e","t">>,
                                   <<"W","i","-","F","i">>,
                                   <<"L","o","c","a","l"," ","A","r","e","a"," ","C","o","n","n","e","c","t","i","o","n">> >>
      [] platform = "darwin" -> << <<"e","n","0">>, <<"e","n","1">> >>
      [] platform = "linux"  -> << <<"e","t","h","0">>, <<"w","l","a","n","0">> >>
      [] OTHER               -> << >>

\* VIRTUAL_INTERFACES.all, line 1706.
VIRTUAL_INTERFACES_all ==
    << <<"d","o","c","k","e","r">>, <<"v","e","t","h">>, <<"t","u","n">>, <<"l","o">> >>

\* Variant: a platform without a row gets the linux row.
VIRTUAL_INTERFACES_LinuxDefault(platform) ==
    CASE platform = "win32"  -> << <<"V","i","r","t","u","a","l">>,
                                   <<"v","E","t","h","e","r","n","e","t">>,
                                   <<"T","e","r","e","d","o">>,
                                   <<"B","l","u","e","t","o","o","t","h">> >>
      [] platform = "darwin" -> << <<"a","w","d","l">>, <<"b","r","i","d","g","e">>, <<"u","t","u","n">> >>
      [] OTHER               -> << <<"v","i","r","b","r">>, <<"k","u","b","e">>, <<"c","n","i">> >>

\* VIRTUAL_INTERFACES[platform] || [], lines 1707-1709 and 1713.
VIRTUAL_INTERFACES(platform) ==
    CASE platform = "win32"  -> << <<"V","i","r","t","u","a","l">>,
                                   <<"v","E","t","h","e","r","n","e","t">>,
                                   <<"T","e","r","e","d","o">>,
                                   <<"B","l","u","e","t","o","o","t","h">> >>
      [] platform = "darwin" -> << <<"a","w","d","l">>, <<"b","r","i","d","g","e">>, <<"u","t","u","n">> >>
      [] platform = "linux"  -> << <<"v","i","r","b","r">>, <<"k","u","b","e">>, <<"c","n","i">> >>
      [] OTHER               -> << >>

\* Variant: the fragments of every platform are excluded on every platform.
virtualExcludes_EveryPlatform(platform) ==
    VIRTUAL_INTERFACES_all \o VIRTUAL_INTERFACES("win32") \o VIRTUAL_INTERFACES("darwin")
        \o VIRTUAL_INTERFACES("linux")

\* [...VIRTUAL_INTERFACES.all, ...(VIRTUAL_INTERFACES[platform] || [])], line 1713.
virtualExcludes(platform) == VIRTUAL_INTERFACES_all \o VIRTUAL_INTERFACES(platform)

\* Variant: the prefix stops after the first octet.
LinkLocalPrefix_Short == <<"1","6","9",".">>

\* The link-local prefix tested by findValidAddress, line 1753.
LinkLocalPrefix == <<"1","6","9",".","2","5","4",".">>

(***************************************************************************)
(* Host inputs                                                             *)
(***************************************************************************)

\* Values of os.platform(); "freebsd" stands for every platform that has no
\* row in PRIORITY_CONFIG and VIRTUAL_INTERFACES.
Platforms == {"win32", "darwin", "linux", "freebsd"}

\* Values of process.env.NODE_ENV; "" is the unset variable.
NodeEnvs == {"", "development", "production", "test"}

\* Values of process.env.SFU_ANNOUNCED_IP || '': unset, an IPv4 address, and
\* a string that is no IPv4 address.
AnnouncedIPs == { << >>, <<"2","0","3",".","0",".","1","1","3",".","7">>, <<":",":","1">> }

\* Address records as os.networkInterfaces() reports them.
RecA  == [family |-> "IPv4", address |-> <<"1","9","2",".","1","6","8",".","1",".","5">>, internal |-> FALSE]
RecB  == [family |-> "IPv4", address |-> <<"1","6","9",".","2","5","5",".","0",".","2">>, internal |-> FALSE]
RecV6 == [family |-> "IPv6", address |-> <<"f","e","8","0",":",":","1">>, internal |-> FALSE]
RecLoopback  == [family |-> "IPv4", address |-> <<"1","2","7",".","0",".","0",".","1">>, internal |-> TRUE]
RecLinkLocal == [family |-> "IPv4", address |-> <<"1","6","9",".","2","5","4",".","7",".","7">>, internal |-> FALSE]

\* A record with no address property, and one whose address is the empty
\* string: neither is reported by a conforming os.networkInterfaces().
RecNoAddress    == [family |-> "IPv4", internal |-> FALSE]
RecEmptyAddress == [family |-> "IPv4", address |-> << >>, internal |-> FALSE]

\* Address lists of one interface.
AddressLists ==
    { << RecA >>,
      << RecLoopback, RecV6, RecLinkLocal >>,
      << RecV6, RecLinkLocal, RecB, RecA >> }

\* Address lists holding malformed records.
MalformedAddressLists ==
    { << RecNoAddress >>,
      << RecA, RecNoAddress >>,
      << RecEmptyAddress, RecA >> }

\* Interface names a host of the given platform may report.
HostNames(platform) ==
    CASE platform = "win32"  -> { <<"E","t","h","e","r","n","e","t">>,
                                  <<"E","t","h","e","r","n","e","t"," ","2">>,
                                  <<"v","E","t","h","e","r","n","e","t">>,
                                  <<"L","o","c","a","l"," ","A","r","e","a"," ","C","o","n","n","e","c","t","i","o","n">>,
                                  <<"B","l","u","e","t","o","o","t","h">>,
                                  <<"L","o","o","p","b","a","c","k">>,
                                  <<"M","o","b","i","l","e">> }
      [] platform = "darwin" -> { <<"e","n","0">>, <<"e","n","1">>, <<"u","t","u","n","0">>, <<"b","r","i","d","g","e","0">>, <<"v","i","r","b","r","0">>, <<"l","o","0">> }
      [] platform = "linux"  -> { <<"e","t","h","0">>, <<"w","l","a","n","0">>, <<"w","l","o","1">>, <<"v","i","r","b","r","0">>, <<"b","r","i","d","g","e","0">>, <<"E","T","H","0">> }
      [] OTHER               -> { <<"e","t","h","0">>, <<"e","m","0">>, <<"l","o","0">>, <<"b","r","i","d","g","e","0">>, <<"v","i","r","b","r","0">>, <<"d","o","c","k","e","r","0">> }

\* One property of the object os.networkInterfaces() returns.
Entries(platform) ==
    { [name |-> n, addresses |-> l] : n \in HostNames(platform), l \in AddressLists }

\* Entries of a table that does not conform: malformed records, or a name
\* whose value is undefined.
MalformedEntries(platform) ==
    { [name |-> n, addresses |-> l] : n \in HostNames(platform), l \in MalformedAddressLists }
    \cup { [name |-> n] : n \in HostNames(platform) }

\* An object has each key once; Object.keys and Object.entries report the
\* keys in insertion order (no name here is an integer index).
TablesOver(entries) ==
    { t \in UNION { [1..k -> entries] : k \in 0..MaxIfaces } :
        \A i, j \in DOMAIN t : i # j => t[i].name # t[j].name }

\* Tables a conforming os.networkInterfaces() returns.
Tables(platform) == TablesOver(Entries(platform))

\* Tables with at least one malformed entry.
MalformedTables(platform) ==
    { t \in TablesOver(Entries(platform) \cup MalformedEntries(platform)) :
        \E i \in DOMAIN t : t[i] \in MalformedEntries(platform) }

(***************************************************************************)
(* JavaScript values returned by the helpers                               *)
(***************************************************************************)

Undefined    == [kind |-> "undefined"]
TypeError    == [kind |-> "TypeError"]
Str(s, name) == [kind |-> "string", value |-> s, iface |-> name]

\* if (addr): only a non-empty string is truthy among the values above.
Truthy(v) == v.kind = "string" /\ v.value # << >>

\* Variant: an unset NODE_ENV means production.
ENVIRONMENT_DefaultProduction == IF NODE_ENV = "" THEN "production" ELSE NODE_ENV

\* ENVIRONMENT = process.env.NODE_ENV || 'development', line 35.
ENVIRONMENT == IF NODE_ENV = "" THEN "development" ELSE NODE_ENV

(***************************************************************************)
(* findValidAddress, lines 1752-1755                                       *)
(***************************************************************************)

\* Variant: the callback does not test addr.family.
isUsable_AnyFamily(addr) ==
    IF "internal" \in DOMAIN addr /\ addr.internal THEN "reject"
    ELSE IF "address" \notin DOMAIN addr THEN "throw"
    ELSE IF startsWith(addr.address, <<"1","6","9",".","2","5","4",".">>) THEN "reject"
    ELSE "accept"

\* The callback of find, line 1753:
\*   addr.family === 'IPv4' && !addr.internal && !addr.address.startsWith('169.254.')
\* "accept", "reject", or "throw" when addr.address is undefined and && has
\* not short-circuited before it.
isUsable(addr) ==
    IF ~("family" \in DOMAIN addr /\ addr.family = "IPv4") THEN "reject"
    ELSE IF "internal" \in DOMAIN addr /\ addr.internal THEN "reject"
    ELSE IF "address" \notin DOMAIN addr THEN "throw"
    ELSE IF startsWith(addr.address, LinkLocalPrefix) THEN "reject"
    ELSE "accept"

\* Array.prototype.find from index i on, then ?.address.
RECURSIVE findFrom(_, _, _)
findFrom(addresses, i, name) ==
    IF i > Len(addresses) THEN Undefined
    ELSE LET verdict == isUsable(addresses[i]) IN
         CASE verdict = "throw"  -> TypeError
           [] verdict = "accept" -> Str(addresses[i].address, name)
           [] OTHER              -> findFrom(addresses, i + 1, name)

\* Variant: the address of the first record is taken, usable or not.
findValidAddress_FirstRecord(entry) ==
    IF "addresses" \notin DOMAIN entry THEN Undefined
    ELSE Str(entry.addresses[1].address, entry.name)

\* findValidAddress(entry.addresses); addresses?.find(...) is undefined when
\* the interface has no address list.  name only labels the result.
findValidAddress(entry) ==
    IF "addresses" \notin DOMAIN entry THEN Undefined
    ELSE findFrom(entry.addresses, 1, entry.name)

(***************************************************************************)
(* scanAllInterfaces, lines 1736-1745                                      *)
(***************************************************************************)

\* Variant: the containment test respects letter case.
isExcluded_CaseSensitive(name, excludes) ==
    \E e \in 1..Len(excludes) : includes(name, excludes[e])

\* excludes.some((ex) => name.toLowerCase().includes(ex.toLowerCase())), line 1738.
isExcluded(name, excludes) ==
    \E e \in 1..Len(excludes) : includes(toLowerCase(name), toLowerCase(excludes[e]))

\* Variant: the result of the first interface that is not excluded is
\* returned whether or not it is an address.
RECURSIVE scanFrom_StopsAtFirst(_, _, _)
scanFrom_StopsAtFirst(table, excludes, k) ==
    IF k > Len(table) THEN Undefined
    ELSE IF isExcluded(table[k].name, excludes)
         THEN scanFrom_StopsAtFirst(table, excludes, k + 1)
    ELSE findValidAddress(table[k])

\* The loop over Object.entries(ifaces) from position k on; null is Undefined.
RECURSIVE scanFrom(_, _, _)
scanFrom(table, excludes, k) ==
    IF k > Len(table) THEN Undefined
    ELSE IF isExcluded(table[k].name, excludes) THEN scanFrom(table, excludes, k + 1)
    ELSE LET addr == findValidAddress(table[k]) IN
         IF addr = TypeError THEN TypeError
         ELSE IF Truthy(addr) THEN addr
         ELSE scanFrom(table, excludes, k + 1)

\* Variant: the first reported interface is not looked at.
scanAllInterfaces_FromSecond(table, excludes) == scanFrom(table, excludes, 2)

scanAllInterfaces(table, excludes) == scanFrom(table, excludes, 1)

(***************************************************************************)
(* The priority pass of getLocalIPv4, lines 1716-1722                      *)
(***************************************************************************)

\* Object.keys(ifaces)
Keys(table) == [i \in 1..Len(table) |-> table[i].name]

\* ifaces[interfaceName]: the entry of that name; a name the table lacks
\* reads as undefined, like an entry without address list.
Lookup(table, name) ==
    IF \E i \in 1..Len(table) : table[i].name = name
    THEN table[CHOOSE i \in 1..Len(table) : table[i].name = name]
    ELSE [name |-> name]

\* Variant: names are matched without regard to letter case.
matchingIfaces_IgnoreCase(platform, table, ifName) ==
    IF platform = "win32"
    THEN LET Match(k) == includes(toLowerCase(k), toLowerCase(ifName))
         IN  SelectSeq(Keys(table), Match)
    ELSE LET Same(k) == toLowerCase(k) = toLowerCase(ifName)
         IN  SelectSeq(Keys(table), Same)

\* platform === 'win32' ? Object.keys(ifaces).filter((k) => k.includes(ifName)) : [ifName]
matchingIfaces(platform, table, ifName) ==
    IF platform = "win32"
    THEN LET Match(k) == includes(k, ifName) IN SelectSeq(Keys(table), Match)
    ELSE << ifName >>

\* Variant: only the first matching interface is tried.
tryMatching_FirstOnly(table, names, j) ==
    IF j > Len(names) THEN Undefined
    ELSE LET addr == findValidAddress(Lookup(table, names[j])) IN
         IF addr = TypeError THEN TypeError
         ELSE IF Truthy(addr) THEN addr
         ELSE Undefined

\* The inner loop, lines 1718-1721, from position j of matchingIfaces on.
RECURSIVE tryMatching(_, _, _)
tryMatching(table, names, j) ==
    IF j > Len(names) THEN Undefined
    ELSE LET addr == findValidAddress(Lookup(table, names[j])) IN
         IF addr = TypeError THEN TypeError
         ELSE IF Truthy(addr) THEN addr
         ELSE tryMatching(table, names, j + 1)

\* Variant: the priority names are tried from the last to the first.
tryPriority_Reversed(platform, table, p) ==
    tryMatching(table,
                matchingIfaces(platform, table,
                    platformPriorities(platform)[Len(platformPriorities(platform)) + 1 - p]),
                1)

\* One iteration of the outer loop, for the priority name at index p.
tryPriority(platform, table, p) ==
    tryMatching(table, matchingIfaces(platform, table, platformPriorities(platform)[p]), 1)

(***************************************************************************)
(* State machine                                                           *)
(***************************************************************************)

Init ==
    /\ PLATFORM \in Platforms
    /\ IS_DOCKER \in BOOLEAN
    /\ NODE_ENV \in NodeEnvs
    /\ ANNOUNCED_IP \in AnnouncedIPs
    /\ pc = "getIPv4"
    /\ ifaces = << >>
    /\ reads = 0
    /\ prio = 1
    /\ IPv4 = << >>
    /\ source = "none"
    /\ fromIface = << >>
    /\ envFFmpeg = ""
    /\ fs = << >>
    /\ cand = 1
    /\ checked = << >>
    /\ RTMP_FFMPEG_PATH = ""
    /\ pathSource = "none"
    /\ SFU_LISTEN_IP = << >>
    /\ exports = << >>

\* return value of getIPv4 stored in IPv4, line 38.
Return(value, tag, name) ==
    /\ IPv4' = value
    /\ source' = tag
    /\ fromIface' = name
    /\ pc' = "done"

\* Variant: the override is tested after the switch on ENVIRONMENT.
GetIPv4Override_AfterSwitch ==
    /\ pc = "getIPv4"
    /\ ANNOUNCED_IP # << >>
    /\ IF ENVIRONMENT = "development" /\ IS_DOCKER
       THEN Return(<<"1","2","7",".","0",".","0",".","1">>, "containerLoopback", << >>)
       ELSE Return(ANNOUNCED_IP, "explicitOverride", << >>)
    /\ UNCHANGED <<exportVars, ffmpegVars, PLATFORM, IS_DOCKER, NODE_ENV, ANNOUNCED_IP, ifaces, reads, prio>>

\* if (ANNOUNCED_IP) return ANNOUNCED_IP, line 1677.
GetIPv4Override ==
    /\ pc = "getIPv4"
    /\ ANNOUNCED_IP # << >>
    /\ Return(ANNOUNCED_IP, "explicitOverride", << >>)
    /\ UNCHANGED <<exportVars, ffmpegVars, PLATFORM, IS_DOCKER, NODE_ENV, ANNOUNCED_IP, ifaces, reads, prio>>

\* Variant: the containerized development host scans like any other.
GetIPv4Docker_Scans ==
    /\ pc = "getIPv4"
    /\ ANNOUNCED_IP = << >>
    /\ ENVIRONMENT = "development"
    /\ IS_DOCKER
    /\ pc' = "getLocalIPv4"
    /\ UNCHANGED <<exportVars, ffmpegVars, PLATFORM, IS_DOCKER, NODE_ENV, ANNOUNCED_IP, ifaces, reads, prio,
                   IPv4, source, fromIface>>

\* case 'development': IS_DOCKER ? '127.0.0.1', line 1681.
GetIPv4Docker ==
    /\ pc = "getIPv4"
    /\ ANNOUNCED_IP = << >>
    /\ ENVIRONMENT = "development"
    /\ IS_DOCKER
    /\ Return(<<"1","2","7",".","0",".","0",".","1">>, "containerLoopback", << >>)
    /\ UNCHANGED <<exportVars, ffmpegVars, PLATFORM, IS_DOCKER, NODE_ENV, ANNOUNCED_IP, ifaces, reads, prio>>

\* Variant: production falls back to scanning the host.
GetIPv4Production_Scans ==
    /\ pc = "getIPv4"
    /\ ANNOUNCED_IP = << >>
    /\ ENVIRONMENT = "production"
    /\ pc' = "getLocalIPv4"
    /\ UNCHANGED <<exportVars, ffmpegVars, PLATFORM, IS_DOCKER, NODE_ENV, ANNOUNCED_IP, ifaces, reads, prio,
                   IPv4, source, fromIface>>

\* case 'production': return ANNOUNCED_IP, line 1683.
GetIPv4Production ==
    /\ pc = "getIPv4"
    /\ ANNOUNCED_IP = << >>
    /\ ENVIRONMENT = "production"
    /\ Return(ANNOUNCED_IP, "explicitOverride", << >>)
    /\ UNCHANGED <<exportVars, ffmpegVars, PLATFORM, IS_DOCKER, NODE_ENV, ANNOUNCED_IP, ifaces, reads, prio>>

\* Variant: the container test also guards the default branch.
GetIPv4Local_DockerLoopback ==
    /\ pc = "getIPv4"
    /\ ANNOUNCED_IP = << >>
    /\ \/ ENVIRONMENT = "development" /\ ~IS_DOCKER
       \/ ENVIRONMENT \notin {"development", "production"}
    /\ IF IS_DOCKER
       THEN Return(<<"1","2","7",".","0",".","0",".","1">>, "containerLoopback", << >>)
       ELSE /\ pc' = "getLocalIPv4"
            /\ UNCHANGED <<IPv4, source, fromIface>>
    /\ UNCHANGED <<exportVars, ffmpegVars, PLATFORM, IS_DOCKER, NODE_ENV, ANNOUNCED_IP, ifaces, reads, prio>>

\* The two calls of getLocalIPv4(), lines 1681 and 1685.
GetIPv4Local ==
    /\ pc = "getIPv4"
    /\ ANNOUNCED_IP = << >>
    /\ \/ ENVIRONMENT = "development" /\ ~IS_DOCKER
       \/ ENVIRONMENT \notin {"development", "production"}
    /\ pc' = "getLocalIPv4"
    /\ UNCHANGED <<exportVars, ffmpegVars, PLATFORM, IS_DOCKER, NODE_ENV, ANNOUNCED_IP, ifaces, reads, prio,
                   IPv4, source, fromIface>>

\* const ifaces = os.networkInterfaces(), line 1696, on a conforming host.
NetworkInterfaces ==
    /\ pc = "getLocalIPv4"
    /\ \E t \in Tables(PLATFORM) : ifaces' = t
    /\ reads' = reads + 1
    /\ prio' = 1
    /\ pc' = "priority"
    /\ UNCHANGED <<exportVars, ffmpegVars, PLATFORM, IS_DOCKER, NODE_ENV, ANNOUNCED_IP, IPv4, source, fromIface>>

\* The same call returning a table with malformed entries.
NetworkInterfacesMalformed ==
    /\ pc = "getLocalIPv4"
    /\ \E t \in MalformedTables(PLATFORM) : ifaces' = t
    /\ reads' = reads + 1
    /\ prio' = 1
    /\ pc' = "priority"
    /\ UNCHANGED <<exportVars, ffmpegVars, PLATFORM, IS_DOCKER, NODE_ENV, ANNOUNCED_IP, IPv4, source, fromIface>>

\* if (addr) return addr, line 1720.
PriorityHit ==
    /\ pc = "priority"
    /\ prio <= Len(platformPriorities(PLATFORM))
    /\ LET addr == tryPriority(PLATFORM, ifaces, prio) IN
         /\ Truthy(addr)
         /\ Return(addr.value, "priorityInterface", addr.iface)
    /\ UNCHANGED <<exportVars, ffmpegVars, PLATFORM, IS_DOCKER, NODE_ENV, ANNOUNCED_IP, ifaces, reads, prio>>

\* Variant: a priority name without address ends the priority loop.
PriorityMiss_Break ==
    /\ pc = "priority"
    /\ prio <= Len(platformPriorities(PLATFORM))
    /\ tryPriority(PLATFORM, ifaces, prio) = Undefined
    /\ prio' = Len(platformPriorities(PLATFORM)) + 1
    /\ UNCHANGED <<exportVars, ffmpegVars, PLATFORM, IS_DOCKER, NODE_ENV, ANNOUNCED_IP, pc, ifaces, reads,
                   IPv4, source, fromIface>>

\* No matching interface of this priority name gave an address: next name.
PriorityMiss ==
    /\ pc = "priority"
    /\ prio <= Len(platformPriorities(PLATFORM))
    /\ tryPriority(PLATFORM, ifaces, prio) = Undefined
    /\ prio' = prio + 1
    /\ UNCHANGED <<exportVars, ffmpegVars, PLATFORM, IS_DOCKER, NODE_ENV, ANNOUNCED_IP, pc, ifaces, reads,
                   IPv4, source, fromIface>>

\* addr.address.startsWith on a record without address, line 1753, reached
\* from line 1719: the TypeError leaves getIPv4 and IPv4 is never bound.
PriorityThrows ==
    /\ pc = "priority"
    /\ prio <= Len(platformPriorities(PLATFORM))
    /\ tryPriority(PLATFORM, ifaces, prio) = TypeError
    /\ pc' = "threw"
    /\ UNCHANGED <<exportVars, ffmpegVars, PLATFORM, IS_DOCKER, NODE_ENV, ANNOUNCED_IP, ifaces, reads, prio,
                   IPv4, source, fromIface>>

\* Variant: the table is read again before the exhaustive pass.
PriorityDone_Reread ==
    /\ pc = "priority"
    /\ prio > Len(platformPriorities(PLATFORM))
    /\ pc' = "getLocalIPv4"
    /\ UNCHANGED <<exportVars, ffmpegVars, PLATFORM, IS_DOCKER, NODE_ENV, ANNOUNCED_IP, ifaces, reads, prio,
                   IPv4, source, fromIface>>

\* The priority loop ends; scanAllInterfaces is called, line 1725.
PriorityDone ==
    /\ pc = "priority"
    /\ prio > Len(platformPriorities(PLATFORM))
    /\ pc' = "scanAll"
    /\ UNCHANGED <<exportVars, ffmpegVars, PLATFORM, IS_DOCKER, NODE_ENV, ANNOUNCED_IP, ifaces, reads, prio,
                   IPv4, source, fromIface>>

\* if (fallbackAddress) return fallbackAddress, line 1726.
ScanHit ==
    /\ pc = "scanAll"
    /\ LET addr == scanAllInterfaces(ifaces, virtualExcludes(PLATFORM)) IN
         /\ Truthy(addr)
         /\ Return(addr.value, "exhaustiveScan", addr.iface)
    /\ UNCHANGED <<exportVars, ffmpegVars, PLATFORM, IS_DOCKER, NODE_ENV, ANNOUNCED_IP, ifaces, reads, prio>>

\* Variant: the last resort is the loopback address.
Sentinel_Loopback ==
    /\ pc = "scanAll"
    /\ scanAllInterfaces(ifaces, virtualExcludes(PLATFORM)) = Undefined
    /\ Return(<<"1","2","7",".","0",".","0",".","1">>, "sentinel", << >>)
    /\ UNCHANGED <<exportVars, ffmpegVars, PLATFORM, IS_DOCKER, NODE_ENV, ANNOUNCED_IP, ifaces, reads, prio>>

\* return '0.0.0.0', line 1728.
Sentinel ==
    /\ pc = "scanAll"
    /\ scanAllInterfaces(ifaces, virtualExcludes(PLATFORM)) = Undefined
    /\ Return(<<"0",".","0",".","0",".","0">>, "sentinel", << >>)
    /\ UNCHANGED <<exportVars, ffmpegVars, PLATFORM, IS_DOCKER, NODE_ENV, ANNOUNCED_IP, ifaces, reads, prio>>

\* The TypeError of line 1753 reached from line 1741.
ScanThrows ==
    /\ pc = "scanAll"
    /\ scanAllInterfaces(ifaces, virtualExcludes(PLATFORM)) = TypeError
    /\ pc' = "threw"
    /\ UNCHANGED <<exportVars, ffmpegVars, PLATFORM, IS_DOCKER, NODE_ENV, ANNOUNCED_IP, ifaces, reads, prio,
                   IPv4, source, fromIface>>

Next ==
    \/ GetIPv4Override
    \/ GetIPv4Docker
    \/ GetIPv4Production
    \/ GetIPv4Local
    \/ NetworkInterfaces
    \/ PriorityHit
    \/ PriorityMiss
    \/ PriorityDone
    \/ ScanHit
    \/ Sentinel

\* Startup on a host whose os.networkInterfaces() conforms to its contract.
Spec == Init /\ [][Next]_vars

NextMalformed ==
    \/ GetIPv4Override
    \/ GetIPv4Docker
    \/ GetIPv4Production
    \/ GetIPv4Local
    \/ NetworkInterfaces
    \/ NetworkInterfacesMalformed
    \/ PriorityHit
    \/ PriorityMiss
    \/ PriorityThrows
    \/ PriorityDone
    \/ ScanHit
    \/ Sentinel
    \/ ScanThrows

\* Startup on a host whose interface table may also be malformed.
SpecMalformed == Init /\ [][NextMalformed]_vars

(***************************************************************************)
(* const RTMP_FFMPEG_PATH = process.env.RTMP_FFMPEG_PATH ||                *)
(* getFFmpegPath(PLATFORM), line 53, evaluated once IPv4 is bound.         *)
(***************************************************************************)

\* Variant: a platform without list gets the list of darwin.
platformPaths_DarwinDefault(platform) ==
    CASE platform = "linux"  -> <<"/usr/bin/ffmpeg", "/usr/local/bin/ffmpeg">>
      [] platform = "win32"  -> <<"C:\\ffmpeg\\bin\\ffmpeg.exe",
                                  "C:\\Program Files\\ffmpeg\\bin\\ffmpeg.exe">>
      [] OTHER               -> <<"/usr/local/bin/ffmpeg", "/opt/homebrew/bin/ffmpeg">>

\* const platformPaths = paths[platform] || ['/usr/bin/ffmpeg'], lines 1764-1770.
platformPaths(platform) ==
    CASE platform = "darwin" -> <<"/usr/local/bin/ffmpeg", "/opt/homebrew/bin/ffmpeg">>
      [] platform = "linux"  -> <<"/usr/bin/ffmpeg", "/usr/local/bin/ffmpeg">>
      [] platform = "win32"  -> <<"C:\\ffmpeg\\bin\\ffmpeg.exe",
                                  "C:\\Program Files\\ffmpeg\\bin\\ffmpeg.exe">>
      [] OTHER               -> <<"/usr/bin/ffmpeg">>

\* Values of process.env.RTMP_FFMPEG_PATH that are set and not empty: a path
\* outside every candidate list and a path that linux also lists.
FFmpegOverrides == {"/opt/ffmpeg/bin/ffmpeg", "/usr/bin/ffmpeg"}

\* fs.accessSync(path) returns ("ok") or throws with one of these codes.
AccessOutcomes == {"ok", "ENOENT", "EACCES"}

\* The paths whose presence on the host matters to line 53.
FsPaths(platform) ==
    { platformPaths(platform)[i] : i \in DOMAIN platformPaths(platform) } \cup FFmpegOverrides

FileSystems(platform) == [FsPaths(platform) -> AccessOutcomes]

\* os.networkInterfaces() on a host that reports no interface at all.
NetworkInterfacesNone ==
    /\ pc = "getLocalIPv4"
    /\ ifaces' = << >>
    /\ reads' = reads + 1
    /\ prio' = 1
    /\ pc' = "priority"
    /\ UNCHANGED <<exportVars, ffmpegVars, PLATFORM, IS_DOCKER, NODE_ENV, ANNOUNCED_IP, IPv4, source, fromIface>>

\* Variant: the environment variable is read but getFFmpegPath is called anyway.
FFmpegOverride_Ignored ==
    /\ pc = "done"
    /\ \E v \in FFmpegOverrides : envFFmpeg' = v
    /\ \E f \in FileSystems(PLATFORM) : fs' = f
    /\ cand' = 1
    /\ pc' = "getFFmpegPath"
    /\ UNCHANGED <<exportVars, ipVars, checked, RTMP_FFMPEG_PATH, pathSource>>

\* process.env.RTMP_FFMPEG_PATH is truthy: it is the value of line 53 and
\* getFFmpegPath is not called.
FFmpegOverride ==
    /\ pc = "done"
    /\ \E v \in FFmpegOverrides :
         /\ envFFmpeg' = v
         /\ RTMP_FFMPEG_PATH' = v
    /\ \E f \in FileSystems(PLATFORM) : fs' = f
    /\ pathSource' = "override"
    /\ pc' = "configured"
    /\ UNCHANGED <<exportVars, ipVars, cand, checked>>

\* process.env.RTMP_FFMPEG_PATH is undefined or '': getFFmpegPath(PLATFORM)
\* is called and its loop starts at the first candidate, line 1772.
FFmpegCall ==
    /\ pc = "done"
    /\ envFFmpeg' = ""
    /\ \E f \in FileSystems(PLATFORM) : fs' = f
    /\ cand' = 1
    /\ pc' = "getFFmpegPath"
    /\ UNCHANGED <<exportVars, ipVars, checked, RTMP_FFMPEG_PATH, pathSource>>

\* fs.accessSync(path) returns; return path, lines 1774-1775.
AccessOk ==
    /\ pc = "getFFmpegPath"
    /\ cand <= Len(platformPaths(PLATFORM))
    /\ LET path == platformPaths(PLATFORM)[cand] IN
         /\ fs[path] = "ok"
         /\ checked' = Append(checked, path)
         /\ RTMP_FFMPEG_PATH' = path
    /\ pathSource' = "existing"
    /\ pc' = "configured"
    /\ UNCHANGED <<exportVars, ipVars, envFFmpeg, fs, cand>>

\* Variant: a candidate that cannot be accessed ends the loop.
AccessThrows_Break ==
    /\ pc = "getFFmpegPath"
    /\ cand <= Len(platformPaths(PLATFORM))
    /\ LET path == platformPaths(PLATFORM)[cand] IN
         /\ fs[path] # "ok"
         /\ checked' = Append(checked, path)
    /\ cand' = Len(platformPaths(PLATFORM)) + 1
    /\ UNCHANGED <<exportVars, ipVars, pc, envFFmpeg, fs, RTMP_FFMPEG_PATH, pathSource>>

\* fs.accessSync(path) throws; catch (e) { continue; }, lines 1776-1778.
AccessThrows ==
    /\ pc = "getFFmpegPath"
    /\ cand <= Len(platformPaths(PLATFORM))
    /\ LET path == platformPaths(PLATFORM)[cand] IN
         /\ fs[path] # "ok"
         /\ checked' = Append(checked, path)
    /\ cand' = cand + 1
    /\ UNCHANGED <<exportVars, ipVars, pc, envFFmpeg, fs, RTMP_FFMPEG_PATH, pathSource>>

\* Variant: the last candidate is the best-effort guess.
FFmpegFallback_Last ==
    /\ pc = "getFFmpegPath"
    /\ cand > Len(platformPaths(PLATFORM))
    /\ RTMP_FFMPEG_PATH' = platformPaths(PLATFORM)[Len(platformPaths(PLATFORM))]
    /\ pathSource' = "fallback"
    /\ pc' = "configured"
    /\ UNCHANGED <<exportVars, ipVars, envFFmpeg, fs, cand, checked>>

\* return platformPaths[0], line 1781.
FFmpegFallback ==
    /\ pc = "getFFmpegPath"
    /\ cand > Len(platformPaths(PLATFORM))
    /\ RTMP_FFMPEG_PATH' = platformPaths(PLATFORM)[1]
    /\ pathSource' = "fallback"
    /\ pc' = "configured"
    /\ UNCHANGED <<exportVars, ipVars, envFFmpeg, fs, cand, checked>>

NextFFmpeg ==
    \/ GetIPv4Override
    \/ GetIPv4Docker
    \/ GetIPv4Production
    \/ GetIPv4Local
    \/ NetworkInterfacesNone
    \/ PriorityMiss
    \/ PriorityDone
    \/ Sentinel
    \/ FFmpegOverride
    \/ FFmpegCall
    \/ AccessOk
    \/ AccessThrows
    \/ FFmpegFallback

\* Startup up to line 53 on a host that reports no network interface: the
\* transcoder path depends on the platform, the environment variable and the
\* file system only.
SpecFFmpeg == Init /\ [][NextFFmpeg]_vars

(***************************************************************************)
(* module.exports, line 59: the listenInfos of webRtcServerOptions (lines  *)
(* 1556-1589) and of webRtcTransport (lines 1610-1641).  The object is     *)
(* built once RTMP_FFMPEG_PATH is bound.  SFU_LISTEN_IP is read at line    *)
(* 37; nothing before line 59 uses it, so its value is drawn here.  The    *)
(* portRange of an entry holds port numbers only and is left out.          *)
(***************************************************************************)

\* Values of process.env.SFU_LISTEN_IP: unset, an IPv4 address, the IPv6
\* wildcard.
ListenIPs == {<< >>, <<"1","0",".","0",".","0",".","2">>, <<":",":">>}

\* LISTEN_IP = process.env.SFU_LISTEN_IP || '0.0.0.0', line 37.
LISTEN_IP(env) == IF env = << >> THEN <<"0",".","0",".","0",".","0">> ELSE env

\* One element of a listenInfos array: { protocol, ip, announcedAddress }.
ListenInfo(protocol, ip, announcedAddress) ==
    [protocol |-> protocol, ip |-> ip, announcedAddress |-> announcedAddress]

\* Variant: the TCP entries announce the listen address.
Exports_TcpAnnouncesListenIp ==
    /\ pc = "configured"
    /\ \E env \in ListenIPs :
         /\ SFU_LISTEN_IP' = env
         /\ exports' =
              [webRtcServerOptions |->
                   [listenInfos |-> <<ListenInfo("udp", LISTEN_IP(env), IPv4),
                                      ListenInfo("tcp", LISTEN_IP(env), LISTEN_IP(env))>>],
               webRtcTransport |->
                   [listenInfos |-> <<ListenInfo("udp", LISTEN_IP(env), IPv4),
                                      ListenInfo("tcp", LISTEN_IP(env), LISTEN_IP(env))>>]]
    /\ pc' = "exported"
    /\ UNCHANGED <<ipVars, ffmpegVars>>

\* The object literal is evaluated: ip: LISTEN_IP and announcedAddress: IPv4
\* at lines 1566-1567, 1582-1583, 1619-1620 and 1634-1635.
Exports ==
    /\ pc = "configured"
    /\ \E env \in ListenIPs :
         /\ SFU_LISTEN_IP' = env
         /\ exports' =
              [webRtcServerOptions |->
                   [listenInfos |-> <<ListenInfo("udp", LISTEN_IP(env), IPv4),
                                      ListenInfo("tcp", LISTEN_IP(env), IPv4)>>],
               webRtcTransport |->
                   [listenInfos |-> <<ListenInfo("udp", LISTEN_IP(env), IPv4),
                                      ListenInfo("tcp", LISTEN_IP(env), IPv4)>>]]
    /\ pc' = "exported"
    /\ UNCHANGED <<ipVars, ffmpegVars>>

NextExports ==
    \/ NextFFmpeg
    \/ Exports

\* Startup up to the finished module.exports on a host that reports no
\* network interface.
SpecExports == Init /\ [][NextExports]_vars

(***************************************************************************)
(* The specification's own vocabulary, used to state the properties        *)
(***************************************************************************)

\* Priority interface names of a platform, as the design tabulates them.
ProfilePriorityNames(platform) ==
    CASE platform = "win32"  -> << <<"E","t","h","e","r","n","e","t">>,
                                   <<"W","i","-","F","i">>,
                                   <<"L","o","c","a","l"," ","A","r","e","a"," ","C","o","n","n","e","c","t","i","o","n">> >>
      [] platform = "darwin" -> << <<"e","n","0">>, <<"e","n","1">> >>
      [] platform = "linux"  -> << <<"e","t","h","0">>, <<"w","l","a","n","0">> >>
      [] OTHER               -> << >>

\* Virtual-name fragments of a platform together with the global set.
ProfileFragments(platform) ==
    { <<"d","o","c","k","e","r">>, <<"v","e","t","h">>, <<"t","u","n">>, <<"l","o">> }
    \cup CASE platform = "win32"  -> { <<"V","i","r","t","u","a","l">>,
                                       <<"v","E","t","h","e","r","n","e","t">>,
                                       <<"T","e","r","e","d","o">>,
                                       <<"B","l","u","e","t","o","o","t","h">> }
           [] platform = "darwin" -> { <<"a","w","d","l">>, <<"b","r","i","d","g","e">>, <<"u","t","u","n">> }
           [] platform = "linux"  -> { <<"v","i","r","b","r">>, <<"k","u","b","e">>, <<"c","n","i">> }
           [] OTHER               -> { }

\* s occurs in name at some position, letter case respected.
Occurs(name, s) ==
    \E i \in 1..Len(name) :
        /\ i + Len(s) - 1 <= Len(name)
        /\ \A k \in 1..Len(s) : name[i + k - 1] = s[k]

\* The name contains a fragment of the combined exclusion set, whatever the case.
NameExcluded(name, platform) ==
    \E f \in ProfileFragments(platform) : Occurs(toLowerCase(name), toLowerCase(f))

\* The name contains a fragment of the combined exclusion set verbatim.
NameHasFragment(name, platform) ==
    \E f \in ProfileFragments(platform) : Occurs(name, f)

\* A record is usable: IPv4, not internal, not link-local.
Usable(r) ==
    /\ r.family = "IPv4"
    /\ r.internal = FALSE
    /\ ~(Len(r.address) >= 8 /\ SubSeq(r.address, 1, 8) = <<"1","6","9",".","2","5","4",".">>)

\* Positions of the usable records of entry i of the table.
UsablePositions(i) == { k \in DOMAIN ifaces[i].addresses : Usable(ifaces[i].addresses[k]) }

HasUsable(i) == UsablePositions(i) # { }

\* Address of the first usable record of entry i (which has one).
FirstUsable(i) ==
    ifaces[i].addresses[CHOOSE k \in UsablePositions(i) : \A m \in UsablePositions(i) : k <= m].address

\* Entry i is matched by priority name p: by containment on Windows, by
\* equality elsewhere.
PriorityMatch(i, p) ==
    IF PLATFORM = "win32" THEN Occurs(ifaces[i].name, p) ELSE ifaces[i].name = p

\* Some interface matched by some priority name has a usable address.
PriorityHasUsable ==
    \E n \in DOMAIN ProfilePriorityNames(PLATFORM), i \in DOMAIN ifaces :
        PriorityMatch(i, ProfilePriorityNames(PLATFORM)[n]) /\ HasUsable(i)

\* Entry of the table that carries the name the result was taken from.
FromEntry == CHOOSE i \in DOMAIN ifaces : ifaces[i].name = fromIface

Decimal == <<"0","1","2","3","4","5","6","7","8","9">>

IsDigit(c) == \E d \in DOMAIN Decimal : Decimal[d] = c

DigitValue(c) == (CHOOSE d \in DOMAIN Decimal : Decimal[d] = c) - 1

\* s[lo..hi] is one to three decimal digits whose value is at most 255.
IsOctet(s, lo, hi) ==
    /\ lo <= hi
    /\ hi - lo <= 2
    /\ \A k \in lo..hi : IsDigit(s[k])
    /\ LET v(k) == IF k < lo THEN 0 ELSE DigitValue(s[k])
       IN  100 * v(hi - 2) + 10 * v(hi - 1) + v(hi) <= 255

\* s is four octets separated by three dots.
IsDottedQuad(s) ==
    LET dots == { k \in DOMAIN s : s[k] = "." } IN
    /\ Cardinality(dots) = 3
    /\ LET d1 == CHOOSE k \in dots : \A m \in dots : k <= m
           d3 == CHOOSE k \in dots : \A m \in dots : m <= k
           d2 == CHOOSE k \in dots : k # d1 /\ k # d3
       IN  /\ IsOctet(s, 1, d1 - 1)
           /\ IsOctet(s, d1 + 1, d2 - 1)
           /\ IsOctet(s, d2 + 1, d3 - 1)
           /\ IsOctet(s, d3 + 1, Len(s))

\* The branch of getIPv4 that scans the host was taken.
Scanned == pc \in {"priority", "scanAll"} \/ source \in {"priorityInterface", "exhaustiveScan", "sentinel"}

(***************************************************************************)
(* Properties                                                              *)
(***************************************************************************)

\* C1: a non-empty override is returned exactly, tagged explicitOverride,
\* on every platform, in every environment, containerized or not, and the
\* interface table is never read.
C1_OverrideReturnedVerbatim ==
    ANNOUNCED_IP # << >> =>
        /\ reads = 0
        /\ pc \in {"getIPv4", "done"}
        /\ pc = "done" => IPv4 = ANNOUNCED_IP /\ source = "explicitOverride"

\* The override won over the container loopback of development.
C1_Witness ==
    /\ pc = "done"
    /\ ANNOUNCED_IP = <<":",":","1">>
    /\ ENVIRONMENT = "development"
    /\ IS_DOCKER
    /\ IPv4 = <<":",":","1">>

\* C2 as stated: the resolved address is a dotted-quad IPv4 string for every
\* override, the only exception being production with an empty override.
C2_AlwaysDottedQuad ==
    (pc = "done" /\ ~(ENVIRONMENT = "production" /\ ANNOUNCED_IP = << >>)) =>
        IsDottedQuad(IPv4)

\* C2 amended: the resolved address is a dotted-quad IPv4 string whenever the
\* override is empty or is itself a dotted quad, production with an empty
\* override excepted; a non-empty override is returned as it is.
C2_DottedQuadUnlessOverride ==
    (/\ pc = "done"
     /\ ANNOUNCED_IP = << >> \/ IsDottedQuad(ANNOUNCED_IP)
     /\ ~(ENVIRONMENT = "production" /\ ANNOUNCED_IP = << >>)) =>
        IsDottedQuad(IPv4)

\* An address was taken from an interface that also reports an IPv6 record.
C2_Witness ==
    /\ pc = "done"
    /\ ANNOUNCED_IP = << >>
    /\ source \in {"priorityInterface", "exhaustiveScan"}
    /\ \E k \in DOMAIN ifaces[FromEntry].addresses :
           ifaces[FromEntry].addresses[k].family = "IPv6"
    /\ IsDottedQuad(IPv4)

\* C3 as stated: an address found by scanning, in the priority pass or in the
\* exhaustive pass, never comes from an interface whose name contains a
\* fragment of the combined exclusion set.
C3_NoVirtualInterface ==
    (pc = "done" /\ source \in {"priorityInterface", "exhaustiveScan"}) =>
        ~NameHasFragment(fromIface, PLATFORM)

\* C4 as stated: resolution never raises, also on a malformed interface table.
C4_NeverRaises == pc # "threw"

\* C5: a record is accepted exactly when it is IPv4, not internal and not
\* prefixed 169.254.; the address either pass returns is that of the first
\* such record of the interface it chose.
C5_UsableExactly ==
    /\ \A i \in DOMAIN ifaces : \A k \in DOMAIN ifaces[i].addresses :
           (isUsable(ifaces[i].addresses[k]) = "accept") <=> Usable(ifaces[i].addresses[k])
    /\ (pc = "done" /\ source \in {"priorityInterface", "exhaustiveScan"}) =>
           HasUsable(FromEntry) /\ IPv4 = FirstUsable(FromEntry)

\* An IPv6 and a link-local record were passed over for the record after them.
C5_Witness ==
    /\ pc = "done"
    /\ source = "exhaustiveScan"
    /\ ifaces[FromEntry].addresses[1].family = "IPv6"
    /\ IPv4 = RecB.address

\* C6: when an interface matched by a priority name has a usable address the
\* exhaustive pass is not entered and the result is the address of a priority
\* interface, also when an interface reported earlier has a usable address.
C6_PriorityBeforeExhaustive ==
    /\ (pc = "scanAll" \/ source \in {"exhaustiveScan", "sentinel"}) => ~PriorityHasUsable
    /\ (pc = "done" /\ Scanned /\ PriorityHasUsable) =>
           /\ source = "priorityInterface"
           /\ \E n \in DOMAIN ProfilePriorityNames(PLATFORM) :
                  PriorityMatch(FromEntry, ProfilePriorityNames(PLATFORM)[n])
           /\ IPv4 = FirstUsable(FromEntry)

\* The priority interface is reported second, after a candidate of the
\* exhaustive pass that has a usable address of its own.
C6_Witness ==
    /\ pc = "done"
    /\ source = "priorityInterface"
    /\ Len(ifaces) = 2
    /\ FromEntry = 2
    /\ HasUsable(1)
    /\ ~NameExcluded(ifaces[1].name, PLATFORM)
    /\ IPv4 # FirstUsable(1)

\* C7: the exhaustive pass never returns an address of an interface whose
\* name contains, whatever the case, a fragment of the platform or of the
\* global set.
C7_ExhaustiveSkipsExcluded ==
    (pc = "done" /\ source = "exhaustiveScan") => ~NameExcluded(fromIface, PLATFORM)

\* An excluded interface with a usable address is reported first and the
\* exhaustive pass returned the address of the second.
C7_Witness ==
    /\ pc = "done"
    /\ source = "exhaustiveScan"
    /\ Len(ifaces) = 2
    /\ FromEntry = 2
    /\ HasUsable(1)
    /\ NameExcluded(ifaces[1].name, PLATFORM)
    /\ ~NameHasFragment(ifaces[1].name, PLATFORM)

C9_ContainerLoopback ==
    (ANNOUNCED_IP = << >> /\ ENVIRONMENT = "development" /\ IS_DOCKER) =>
        /\ reads = 0
        /\ pc \in {"getIPv4", "done"}
        /\ pc = "done" => IPv4 = <<"1","2","7",".","0",".","0",".","1">> /\ source = "containerLoopback"

C9_Witness ==
    /\ pc = "done"
    /\ ANNOUNCED_IP = << >>
    /\ NODE_ENV = "development"
    /\ IS_DOCKER
    /\ PLATFORM = "darwin"
    /\ source = "containerLoopback"

\* The case of C10: empty override, development outside a container, on a
\* platform that has priority names.
C10_Case ==
    /\ pc = "done"
    /\ ANNOUNCED_IP = << >>
    /\ ENVIRONMENT = "development"
    /\ ~IS_DOCKER
    /\ ProfilePriorityNames(PLATFORM) # << >>

\* C10 as stated: when the interface named like the first priority name is
\* present with a usable address, its first usable address is returned,
\* tagged priorityInterface, whatever else the table holds in whatever order.
C10_FirstPriorityNameWins ==
    C10_Case =>
        \A i \in DOMAIN ifaces :
            (ifaces[i].name = ProfilePriorityNames(PLATFORM)[1] /\ HasUsable(i)) =>
                IPv4 = FirstUsable(i) /\ source = "priorityInterface"

\* Entries matched by the first priority name that have a usable address.
C10_Matched ==
    { i \in DOMAIN ifaces : PriorityMatch(i, ProfilePriorityNames(PLATFORM)[1]) /\ HasUsable(i) }

\* C10 amended: when an interface matched by the first priority name (equal
\* to it; on Windows, containing it) has a usable address, the first usable
\* address of the first such interface in reported order is returned, tagged
\* priorityInterface.
C10_FirstPriorityMatchWins ==
    (C10_Case /\ C10_Matched # { }) =>
        LET first == CHOOSE i \in C10_Matched : \A j \in C10_Matched : i <= j IN
        /\ source = "priorityInterface"
        /\ fromIface = ifaces[first].name
        /\ IPv4 = FirstUsable(first)

\* linux: wlan0 is reported before eth0, both usable, and eth0 is returned.
C10_Witness ==
    /\ C10_Case
    /\ PLATFORM = "linux"
    /\ Len(ifaces) = 2
    /\ ifaces[1].name = <<"w","l","a","n","0">>
    /\ ifaces[2].name = <<"e","t","h","0">>
    /\ HasUsable(1)
    /\ fromIface = <<"e","t","h","0">>
    /\ IPv4 # FirstUsable(1)

\* The inputs select a branch of getIPv4 that scans the host: empty override,
\* and development outside a container or a mode other than development
\* and production.
ScanBranch ==
    /\ ANNOUNCED_IP = << >>
    /\ \/ ENVIRONMENT = "development" /\ ~IS_DOCKER
       \/ ENVIRONMENT \notin {"development", "production"}

\* Entries the exhaustive pass may take an address from: not excluded by
\* name, with a usable record.
Candidates == { i \in DOMAIN ifaces : ~NameExcluded(ifaces[i].name, PLATFORM) /\ HasUsable(i) }

\* C11: in every scanning branch, when no priority interface and no
\* candidate of the exhaustive pass has a usable address (the empty table
\* included), the result is 0.0.0.0 tagged sentinel.
C11_SentinelWhenNothingUsable ==
    (pc = "done" /\ ScanBranch /\ ~PriorityHasUsable /\ Candidates = { }) =>
        IPv4 = <<"0",".","0",".","0",".","0">> /\ source = "sentinel"

\* The only usable address sits on an excluded interface; the mode is
\* neither development nor production and the host is containerized.
C11_Witness ==
    /\ pc = "done"
    /\ ScanBranch
    /\ ENVIRONMENT = "test"
    /\ IS_DOCKER
    /\ Len(ifaces) = 2
    /\ HasUsable(1)
    /\ ~HasUsable(2)
    /\ IPv4 = <<"0",".","0",".","0",".","0">>
    /\ source = "sentinel"

\* The least element of a non-empty set of positions.
Least(S) == CHOOSE x \in S : \A y \in S : x <= y

\* Entries matched by the n-th priority name that have a usable address.
MatchedUsable(n) ==
    { i \in DOMAIN ifaces : PriorityMatch(i, ProfilePriorityNames(PLATFORM)[n]) /\ HasUsable(i) }

\* Priority names, by position, that some usable interface matches.
WinningNames == { n \in DOMAIN ProfilePriorityNames(PLATFORM) : MatchedUsable(n) # { } }

\* What a scan of the table is to give: the priority pass, else the
\* exhaustive pass, else the sentinel.
ExpectedScan ==
    IF WinningNames # { }
    THEN << FirstUsable(Least(MatchedUsable(Least(WinningNames)))), "priorityInterface" >>
    ELSE IF Candidates # { }
    THEN << FirstUsable(Least(Candidates)), "exhaustiveScan" >>
    ELSE << <<"0",".","0",".","0",".","0">>, "sentinel" >>

\* C16: with an empty override a mode other than development and production
\* scans the host as development outside a container does, containerized or
\* not: one read of the table, the same result of the same table, never the
\* container loopback.
C16_OtherModesScan ==
    /\ (ANNOUNCED_IP = << >> /\ ENVIRONMENT \notin {"development", "production"}) =>
           source # "containerLoopback" /\ (pc \in {"priority", "scanAll", "done"} => reads = 1)
    /\ (pc = "done" /\ ScanBranch) =>
           /\ reads = 1
           /\ source # "containerLoopback"
           /\ << IPv4, source >> = ExpectedScan

\* A containerized host in mode test took an address from the exhaustive pass.
C16_Witness ==
    /\ pc = "done"
    /\ ANNOUNCED_IP = << >>
    /\ NODE_ENV = "test"
    /\ IS_DOCKER
    /\ source = "exhaustiveScan"
    /\ IPv4 = RecA.address

\* C17: the priority names are tried in the listed order and the first name
\* with a usable matched interface wins, whatever the reported order of the
\* interfaces; the loop stops at that name.
C17_PriorityOrder ==
    (pc = "done" /\ ScanBranch /\ WinningNames # { }) =>
        /\ source = "priorityInterface"
        /\ prio = Least(WinningNames)
        /\ PriorityMatch(FromEntry, ProfilePriorityNames(PLATFORM)[Least(WinningNames)])

\* linux in mode test: wlan0 is reported first, eth0 second, both usable;
\* eth0 is returned and the loop is still at the first name.
C17_Witness ==
    /\ pc = "done"
    /\ ScanBranch
    /\ NODE_ENV = "test"
    /\ PLATFORM = "linux"
    /\ Len(ifaces) = 2
    /\ ifaces[1].name = <<"w","l","a","n","0">>
    /\ HasUsable(1)
    /\ fromIface = <<"e","t","h","0">>
    /\ prio = 1

\* Entries whose name contains s, letter case respected, or equals it.
Containing(s) == { i \in DOMAIN ifaces : Occurs(ifaces[i].name, s) }
Named(s)      == { i \in DOMAIN ifaces : ifaces[i].name = s }

C19_ExhaustiveOrder ==
    (pc = "done" /\ ScanBranch /\ ~PriorityHasUsable /\ Candidates # { }) =>
        /\ source = "exhaustiveScan"
        /\ fromIface = ifaces[Least(Candidates)].name
        /\ IPv4 = FirstUsable(Least(Candidates))

\* The first interface is not excluded and has no usable address; the second
\* gives its third record, after an IPv6 and a link-local one.
C19_Witness ==
    /\ pc = "done"
    /\ source = "exhaustiveScan"
    /\ Len(ifaces) = 2
    /\ ~NameExcluded(ifaces[1].name, PLATFORM)
    /\ ~HasUsable(1)
    /\ FromEntry = 2
    /\ ifaces[2].addresses[1].family = "IPv6"
    /\ IPv4 = ifaces[2].addresses[3].address

\* The fragments that exclude on every platform.
GlobalFragments == { <<"d","o","c","k","e","r">>, <<"v","e","t","h">>, <<"t","u","n">>, <<"l","o">> }

\* Entries with a usable address whose name contains no global fragment.
GlobalCandidates ==
    { i \in DOMAIN ifaces :
        /\ HasUsable(i)
        /\ \A f \in GlobalFragments : ~Occurs(toLowerCase(ifaces[i].name), f) }

\* C20: on a platform other than windows, macos and linux no name has
\* priority and only the global fragments exclude.
C20_UnknownPlatform ==
    (pc = "done" /\ ScanBranch /\ PLATFORM \notin {"win32", "darwin", "linux"}) =>
        /\ prio = 1
        /\ source # "priorityInterface"
        /\ IF GlobalCandidates = { }
           THEN source = "sentinel"
           ELSE /\ source = "exhaustiveScan"
                /\ fromIface = ifaces[Least(GlobalCandidates)].name

\* virbr0 is reported before eth0, both usable: virbr0 gives the result.
C20_Witness ==
    /\ pc = "done"
    /\ PLATFORM = "freebsd"
    /\ Len(ifaces) = 2
    /\ ifaces[1].name = <<"v","i","r","b","r","0">>
    /\ ifaces[2].name = <<"e","t","h","0">>
    /\ HasUsable(2)
    /\ source = "exhaustiveScan"
    /\ fromIface = <<"v","i","r","b","r","0">>


(***************************************************************************)
(* ExternalBinaryLocator: the candidate lists as the specification gives   *)
(* them, and its verified flag read off the return site.                   *)
(***************************************************************************)

ProfileCandidates(platform) ==
    CASE platform = "darwin" -> <<"/usr/local/bin/ffmpeg", "/opt/homebrew/bin/ffmpeg">>
      [] platform = "linux"  -> <<"/usr/bin/ffmpeg", "/usr/local/bin/ffmpeg">>
      [] platform = "win32"  -> <<"C:\\ffmpeg\\bin\\ffmpeg.exe",
                                  "C:\\Program Files\\ffmpeg\\bin\\ffmpeg.exe">>
      [] OTHER               -> <<"/usr/bin/ffmpeg">>

Exists(path) == fs[path] = "ok"

ExistingCandidates ==
    { i \in DOMAIN ProfileCandidates(PLATFORM) : Exists(ProfileCandidates(PLATFORM)[i]) }

Verified == pathSource = "existing"

Located == pc = "configured"

\* C12: with no override and no existing candidate (a throwing check counts
\* as not existing, whatever it throws), locate returns the first candidate of
\* the platform's list, a non-empty string, with verified=false; the search
\* never stops on a throwing check.
C12_FirstCandidateWhenNoneExists ==
    /\ (Located /\ envFFmpeg = "" /\ ExistingCandidates = { }) =>
           /\ RTMP_FFMPEG_PATH = ProfileCandidates(PLATFORM)[1]
           /\ RTMP_FFMPEG_PATH # ""
           /\ ~Verified
           /\ pathSource = "fallback"
           /\ PLATFORM = "darwin" => RTMP_FFMPEG_PATH = "/usr/local/bin/ffmpeg"
           /\ PLATFORM \in {"linux", "freebsd"} => RTMP_FFMPEG_PATH = "/usr/bin/ffmpeg"
           /\ PLATFORM = "win32" => RTMP_FFMPEG_PATH = "C:\\ffmpeg\\bin\\ffmpeg.exe"
    /\ pc = "getFFmpegPath" => ENABLED (AccessOk \/ AccessThrows \/ FFmpegFallback)

C12_Witness ==
    /\ Located
    /\ envFFmpeg = ""
    /\ PLATFORM = "darwin"
    /\ fs["/usr/local/bin/ffmpeg"] = "EACCES"
    /\ fs["/opt/homebrew/bin/ffmpeg"] = "ENOENT"
    /\ checked = <<"/usr/local/bin/ffmpeg", "/opt/homebrew/bin/ffmpeg">>
    /\ RTMP_FFMPEG_PATH = "/usr/local/bin/ffmpeg"
    /\ pathSource = "fallback"

\* C13: with no override, locate returns the first candidate in listed order
\* that exists, with verified=true: a returned verified candidate exists and
\* every candidate listed before it does not.
C13_FirstExistingCandidate ==
    /\ (Located /\ envFFmpeg = "" /\ ExistingCandidates # { }) =>
           /\ RTMP_FFMPEG_PATH = ProfileCandidates(PLATFORM)[Least(ExistingCandidates)]
           /\ Verified
    /\ (Located /\ envFFmpeg = "" /\ Verified) =>
           \E i \in DOMAIN ProfileCandidates(PLATFORM) :
               /\ RTMP_FFMPEG_PATH = ProfileCandidates(PLATFORM)[i]
               /\ Exists(ProfileCandidates(PLATFORM)[i])
               /\ \A j \in 1..(i - 1) : ~Exists(ProfileCandidates(PLATFORM)[j])

C13_Witness ==
    /\ Located
    /\ envFFmpeg = ""
    /\ PLATFORM = "linux"
    /\ fs["/usr/bin/ffmpeg"] = "ENOENT"
    /\ fs["/usr/local/bin/ffmpeg"] = "ok"
    /\ RTMP_FFMPEG_PATH = "/usr/local/bin/ffmpeg"
    /\ Verified

\* The search of the candidate list that an unset override leads to.
ListSearched ==
    /\ pathSource \in {"existing", "fallback"}
    /\ checked # << >>
    /\ \A k \in DOMAIN checked : checked[k] = ProfileCandidates(PLATFORM)[k]

\* C14 as stated: a non-empty override is the configured path whatever the
\* platform and the file system, an existence check is performed on it and
\* sets verified; an empty override means the candidate list is searched.
C14_OverrideChecked ==
    /\ (Located /\ envFFmpeg # "") =>
           /\ RTMP_FFMPEG_PATH = envFFmpeg
           /\ \E k \in DOMAIN checked : checked[k] = envFFmpeg
           /\ Verified <=> Exists(envFFmpeg)
    /\ (Located /\ envFFmpeg = "") => ListSearched

\* C14 amended: a non-empty override is the configured path whatever the
\* platform and the file system, and no existence check is performed at all,
\* so the path is never verified; an empty override means the candidate list
\* is searched.
C14_OverrideUnchecked ==
    /\ (Located /\ envFFmpeg # "") =>
           /\ RTMP_FFMPEG_PATH = envFFmpeg
           /\ checked = << >>
           /\ pathSource = "override"
           /\ ~Verified
    /\ (Located /\ envFFmpeg = "") => ListSearched

C14_Witness ==
    /\ Located
    /\ PLATFORM = "win32"
    /\ envFFmpeg = "/opt/ffmpeg/bin/ffmpeg"
    /\ fs[envFFmpeg] = "ok"
    /\ RTMP_FFMPEG_PATH = "/opt/ffmpeg/bin/ffmpeg"
    /\ checked = << >>

(***************************************************************************)
(* Reads of the interface table, and the default deployment environment.   *)
(***************************************************************************)

\* C21: one resolution reads the interface table at most once: exactly once
\* when it scans the host, also when the scan ends in the sentinel, and not
\* at all with a non-empty override, in containerized development or in
\* production.
C21_ReadsAtMostOnce ==
    /\ reads <= 1
    /\ (pc = "done" /\ ScanBranch) => reads = 1
    /\ (pc = "done" /\ ~ScanBranch) => reads = 0 /\ ifaces = << >>
    /\ pc \in {"priority", "scanAll"} => reads = 1

C21_Witness ==
    /\ pc = "done"
    /\ ScanBranch
    /\ source = "sentinel"
    /\ Len(ifaces) = 2
    /\ \E i \in DOMAIN ifaces : HasUsable(i)
    /\ reads = 1

\* C22: with an empty override, an unset NODE_ENV gives what development
\* gives: '127.0.0.1' without reading the table on a containerized host, the
\* result of the scan on any other host.
C22_UnsetIsDevelopment ==
    (pc = "done" /\ ANNOUNCED_IP = << >> /\ NODE_ENV \in {"", "development"}) =>
        IF IS_DOCKER
        THEN /\ IPv4 = <<"1","2","7",".","0",".","0",".","1">>
             /\ source = "containerLoopback"
             /\ reads = 0
        ELSE /\ <<IPv4, source>> = ExpectedScan
             /\ reads = 1

C22_Witness ==
    /\ pc = "done"
    /\ ANNOUNCED_IP = << >>
    /\ NODE_ENV = ""
    /\ ~IS_DOCKER
    /\ source = "exhaustiveScan"
    /\ IPv4 = RecA.address


(***************************************************************************)
(* The finished configuration.                                             *)
(***************************************************************************)

\* The four listen entries: WebRTC server UDP and TCP, transport UDP and TCP.
ListenEntries ==
    { exports.webRtcServerOptions.listenInfos[k] : k \in 1..2 } \cup
    { exports.webRtcTransport.listenInfos[k] : k \in 1..2 }

\* C23: the announced address resolved by the one call of getIPv4 is in all
\* four listen entries of the finished configuration, each with the same listen
\* address, which is SFU_LISTEN_IP unmodified or '0.0.0.0' when it is unset.
C23_OneAnnouncedAddress ==
    pc = "exported" =>
        /\ Len(exports.webRtcServerOptions.listenInfos) = 2
        /\ Len(exports.webRtcTransport.listenInfos) = 2
        /\ \A k \in 1..2 :
             /\ exports.webRtcServerOptions.listenInfos[k].protocol = <<"udp", "tcp">>[k]
             /\ exports.webRtcTransport.listenInfos[k].protocol = <<"udp", "tcp">>[k]
        /\ \A e \in ListenEntries :
             /\ e.announcedAddress = IPv4
             /\ e.ip = (IF SFU_LISTEN_IP = << >> THEN <<"0",".","0",".","0",".","0">> ELSE SFU_LISTEN_IP)
        /\ reads <= 1

C23_Witness ==
    /\ pc = "exported"
    /\ IPv4 = <<"1","2","7",".","0",".","0",".","1">>
    /\ SFU_LISTEN_IP = <<"1","0",".","0",".","0",".","2">>
    /\ \A e \in ListenEntries : e.announcedAddress = <<"1","2","7",".","0",".","0",".","1">> /\ e.ip = <<"1","0",".","0",".","0",".","2">>

(***************************************************************************)
(* What a scan can return.                                                 *)
(***************************************************************************)

\* The address strings of the usable records of the table.
UsableAddresses ==
    UNION { { ifaces[i].addresses[k].address : k \in UsablePositions(i) } : i \in DOMAIN ifaces }

\* C24: when the host was scanned the result is the sentinel '0.0.0.0' or,
\* character for character, the address of a usable record of the table; it
\* is '127.0.0.1' only if a usable record carries that address.
C24_ResultFromTable ==
    (pc = "done" /\ Scanned) =>
        /\ IPv4 = <<"0",".","0",".","0",".","0">> \/ IPv4 \in UsableAddresses
        /\ IPv4 = <<"1","2","7",".","0",".","0",".","1">> => IPv4 \in UsableAddresses

\* A loopback record and a link-local record were reported before the record
\* whose address was returned.
C24_Witness ==
    /\ pc = "done"
    /\ Scanned
    /\ source = "priorityInterface"
    /\ ifaces[FromEntry].addresses[1] = RecV6
    /\ \E i \in DOMAIN ifaces : ifaces[i].addresses[1] = RecLoopback
    /\ IPv4 = RecB.address

(***************************************************************************)
(* Soundness of the sentinel and the exclusion test.                       *)
(***************************************************************************)

\* C25: when the host was scanned and the result is '0.0.0.0', no usable
\* record carrying that address, then no interface matched by a priority name
\* has a usable address and every interface with a usable address has a name
\* that contains, whatever the case, a fragment of the combined exclusion set.
C25_SentinelSound ==
    (pc = "done" /\ Scanned /\ IPv4 = <<"0",".","0",".","0",".","0">> /\ <<"0",".","0",".","0",".","0">> \notin UsableAddresses) =>
        /\ source = "sentinel"
        /\ ~PriorityHasUsable
        /\ \A i \in DOMAIN ifaces : HasUsable(i) => NameExcluded(ifaces[i].name, PLATFORM)

\* The sentinel on a host whose two interfaces both have a usable address.
C25_Witness ==
    /\ pc = "done"
    /\ Scanned
    /\ IPv4 = <<"0",".","0",".","0",".","0">>
    /\ Len(ifaces) = 2
    /\ HasUsable(1)
    /\ HasUsable(2)

\* Entries named 'wlo1'.
Wlo1 == { i \in DOMAIN ifaces : ifaces[i].name = <<"w","l","o","1">> }

\* C26: the exclusion test the exhaustive pass starts with is case-insensitive
\* containment anywhere in the name: the exhaustive pass never returns the
\* address of 'wlo1', which contains 'lo' after its first letter, and when
\* 'wlo1' is the only interface with a usable address and no priority name
\* matches it the result is the sentinel.
C26_SubstringExclusion ==
    /\ pc = "scanAll" =>
           \A i \in DOMAIN ifaces :
               isExcluded(ifaces[i].name, virtualExcludes(PLATFORM)) <=>
                   NameExcluded(ifaces[i].name, PLATFORM)
    /\ (pc = "done" /\ source = "exhaustiveScan") => fromIface # <<"w","l","o","1">>
    /\ (pc = "done" /\ Scanned /\ Wlo1 # { } /\ ~PriorityHasUsable
          /\ \A i \in DOMAIN ifaces : HasUsable(i) => i \in Wlo1) =>
           IPv4 = <<"0",".","0",".","0",".","0">> /\ source = "sentinel"

\* 'wlo1' with a usable address next to an interface without one.
C26_Witness ==
    /\ pc = "done"
    /\ Scanned
    /\ PLATFORM = "linux"
    /\ Len(ifaces) = 2
    /\ 2 \in Wlo1
    /\ HasUsable(2)
    /\ ~HasUsable(1)
    /\ ~Occurs(ifaces[1].name, <<"l","o">>)
    /\ IPv4 = <<"0",".","0",".","0",".","0">>

(***************************************************************************)
(* The exclusion set of a platform, and a priority interface that gives    *)
(* nothing.                                                                *)
(***************************************************************************)

\* Entries with the given name that have a usable address.
UsableNamed(name) == { i \in DOMAIN ifaces : ifaces[i].name = name /\ HasUsable(i) }

\* C27: the exhaustive pass excludes by exactly the global fragments and the
\* fragments of the current platform: on linux 'bridge0', on macos 'virbr0',
\* with a usable address, is a candidate of the exhaustive pass, which then
\* returns the address of its first candidate and not the sentinel.
C27_OwnPlatformFragmentsOnly ==
    /\ { virtualExcludes(PLATFORM)[k] : k \in DOMAIN virtualExcludes(PLATFORM) }
           = ProfileFragments(PLATFORM)
    /\ \A name \in {<<"b","r","i","d","g","e","0">>, <<"v","i","r","b","r","0">>} :
           (/\ pc = "done"
            /\ ScanBranch
            /\ ~PriorityHasUsable
            /\ \/ PLATFORM = "linux" /\ name = <<"b","r","i","d","g","e","0">>
               \/ PLATFORM = "darwin" /\ name = <<"v","i","r","b","r","0">>
            /\ UsableNamed(name) # { }) =>
               /\ UsableNamed(name) \subseteq Candidates
               /\ source = "exhaustiveScan"
               /\ fromIface = ifaces[Least(Candidates)].name
               /\ IPv4 = FirstUsable(Least(Candidates))

\* On linux 'virbr0' is reported first and skipped, 'bridge0' second and taken.
C27_Witness ==
    /\ pc = "done"
    /\ ScanBranch
    /\ PLATFORM = "linux"
    /\ Len(ifaces) = 2
    /\ ifaces[1].name = <<"v","i","r","b","r","0">>
    /\ HasUsable(1)
    /\ source = "exhaustiveScan"
    /\ fromIface = <<"b","r","i","d","g","e","0">>

\* Some priority name matches no interface of the table, or matches one that
\* has no usable address.
PriorityGivesNothing ==
    \E n \in DOMAIN ProfilePriorityNames(PLATFORM) :
        \/ \A i \in DOMAIN ifaces : ~PriorityMatch(i, ProfilePriorityNames(PLATFORM)[n])
        \/ \E i \in DOMAIN ifaces :
               PriorityMatch(i, ProfilePriorityNames(PLATFORM)[n]) /\ ~HasUsable(i)

\* C28: a priority interface that is absent or has no usable address does
\* not end the search: if a priority-matched interface or a non-excluded
\* interface has a usable address, the result is not the sentinel but that
\* of the priority pass continued, then of the exhaustive pass.
C28_SearchContinues ==
    (pc = "done" /\ ScanBranch /\ PriorityGivesNothing
        /\ (WinningNames # { } \/ Candidates # { })) =>
        /\ source \in {"priorityInterface", "exhaustiveScan"}
        /\ IPv4 # <<"0",".","0",".","0",".","0">>
        /\ <<IPv4, source>> = ExpectedScan

\* On linux 'eth0' is reported without usable address and 'wlan0' with one.
C28_Witness ==
    /\ pc = "done"
    /\ ScanBranch
    /\ PLATFORM = "linux"
    /\ Len(ifaces) = 2
    /\ ifaces[1].name = <<"e","t","h","0">>
    /\ ~HasUsable(1)
    /\ fromIface = <<"w","l","a","n","0">>
    /\ source = "priorityInterface"
    /\ prio = 2

\* C29: with no override the configured path is a member of the candidate
\* list of the platform, whatever the file system holds; on a platform
\* without list it is '/usr/bin/ffmpeg' whether or not that path exists.
C29_PathIsCandidate ==
    (Located /\ envFFmpeg = "") =>
        /\ \E k \in DOMAIN ProfileCandidates(PLATFORM) :
               RTMP_FFMPEG_PATH = ProfileCandidates(PLATFORM)[k]
        /\ PLATFORM \notin {"darwin", "linux", "win32"} => RTMP_FFMPEG_PATH = "/usr/bin/ffmpeg"

C29_Witness ==
    /\ Located
    /\ envFFmpeg = ""
    /\ PLATFORM = "freebsd"
    /\ fs["/usr/bin/ffmpeg"] = "ENOENT"
    /\ fs["/opt/ffmpeg/bin/ffmpeg"] = "ok"
    /\ RTMP_FFMPEG_PATH = "/usr/bin/ffmpeg"
====
